---- MODULE Spec2Model ----
(***************************************************************************)
(* Model of the question -> number server (src/server.js, the module that  *)
(* starts at line 531).  Strings are sequences of UTF-16 code units,       *)
(* files are records holding their parsed content, and every await of the  *)
(* handlers is a point where another handler may run.                      *)
(***************************************************************************)
EXTENDS Integers, Sequences, FiniteSets, TLC

VARIABLES
    libraryFile,        \* data/library.json: [valid, entries]
    currentFile,        \* data/current-question.json: [valid, data]
    readyState,         \* wss.clients: readyState of every socket
    inbox,              \* messages each socket has been sent
    pc,                 \* where each /process-question request is
    question,           \* processQuestionLogic: question
    constrainedNumber,  \* processQuestionLogic: constrainedNumber
    numberSource,       \* processQuestionLogic: numberSource
    pendingLibrary,     \* existingLibrary as handed to fs.writeFile
    response,           \* what the request answered
    oracleCalls,        \* openai calls made by the current request
    lastReply,          \* what openai answered to the current request
    known,              \* history: what was cached when the request arrived
    route,              \* the route that took the request
    bpc,                \* where the batch request is
    cleanedQAPairs,     \* batch handler: cleanedQAPairs
    allQuestions,       \* batch handler: allQuestions as handed to fs.writeFile
    batchResponse,      \* what the batch request answered
    batchReply,         \* history: what openai answered to the batch request
    calls,              \* /process-question requests received so far
    batches,            \* batch requests received so far
    writeFailures,      \* fs.writeFile rejections so far
    cached,             \* history: the entries that requests have stored
    suggested,          \* what the last /get-suggested-questions request answered
    samples,            \* /get-suggested-questions requests received so far
    raw,                \* input of the normalizer run
    out,                \* output of the normalizer run
    again               \* output of the normalizer run on that output

files == << libraryFile, currentFile >>
sockets == << readyState, inbox >>
request == << pc, question, constrainedNumber, numberSource, pendingLibrary,
              response, oracleCalls, lastReply, known, route >>
batch == << bpc, cleanedQAPairs, allQuestions, batchResponse, batchReply >>
sampler == << suggested, samples >>
normalizer == << raw, out, again >>

vars == << files, sockets, request, batch, calls, batches, writeFailures,
           cached, sampler, normalizer >>

-----------------------------------------------------------------------------
(* Bounds of the model *)

MaxCalls == 2            \* /process-question requests per run
MaxBatches == 1          \* /update-suggested-questions-library requests per run
MaxWriteFailures == 1    \* fs.writeFile rejections per run
MaxSamples == 1          \* /get-suggested-questions requests per run
MaxQuestionLen == 4      \* code units of a question the model may supply to a batch
MaxRaw == 20100          \* the normalizer is run on the integers -MaxRaw..MaxRaw
Scale == 10              \* and on fractions in steps of 1 / Scale

(* Program constants *)

MaxLibrary == 1000       \* existingLibrary.length >= 1000
MaxAbs == 9999           \* intNum > 9999, Math.abs(val) <= 9999
BatchLength == 25        \* .length(25)
SuggestedCount == 25     \* Math.min(25, questionsLibrary.length)

-----------------------------------------------------------------------------
(* Strings *)

Comma == 44
Period == 46
Semicolon == 59

\* String.prototype.trim removes WhiteSpace and LineTerminator code units.
IsWhiteSpace(c) ==
    c \in {9, 10, 11, 12, 13, 32, 160, 5760, 8232, 8233, 8239, 8287, 12288, 65279}
        \cup (8192..8202)

RECURSIVE TrimStart(_)
TrimStart(s) ==
    IF s = << >> THEN << >>
    ELSE IF IsWhiteSpace(Head(s)) THEN TrimStart(Tail(s))
    ELSE s

RECURSIVE TrimEnd(_)
TrimEnd(s) ==
    IF s = << >> THEN << >>
    ELSE IF IsWhiteSpace(s[Len(s)]) THEN TrimEnd(SubSeq(s, 1, Len(s) - 1))
    ELSE s

Trim(s) == TrimEnd(TrimStart(s))

\* String.prototype.toLowerCase on the code units the model uses (ASCII and
\* CJK ideographs, which have no case).
ToLowerCase(s) ==
    [i \in 1..Len(s) |-> IF s[i] \in 65..90 THEN s[i] + 32 ELSE s[i]]

\* s.replace(/[set]+$/, ""): drop the longest suffix made of code units of set.
RECURSIVE StripTrailing(_, _)
StripTrailing(s, set) ==
    IF s = << >> THEN << >>
    ELSE IF s[Len(s)] \in set THEN StripTrailing(SubSeq(s, 1, Len(s) - 1), set)
    ELSE s

-----------------------------------------------------------------------------
(* Numbers *)

\* A JavaScript number n is held as the integer n * Scale, so that 3.7 is 37
\* when Scale is 10; the integers the program produces are held as they are.
Fixed(n) == n * Scale

Abs(n) == IF n < 0 THEN -n ELSE n

\* Math.floor(Math.abs(num))
FloorAbs(num) == Abs(num) \div Scale

\* A plausible slip: the zero case forgotten.
enforceMaxDigitsNoZeroCase(num) ==
    LET intNum == FloorAbs(num)
    IN  IF intNum > MaxAbs THEN (intNum % MaxAbs) + 1 ELSE intNum

\* A plausible slip: modulo 10000 as in the earlier policy, without the + 1.
enforceMaxDigitsModulo(num) ==
    LET intNum0 == FloorAbs(num)
        intNum1 == IF intNum0 = 0 THEN 1 ELSE intNum0
    IN  IF intNum1 > MaxAbs THEN intNum1 % (MaxAbs + 1) ELSE intNum1

\* A plausible slip: the earlier policy, which keeps the sign and wraps
\* modulo 10000.
enforceMaxDigitsSigned(num) ==
    LET absNum == FloorAbs(num)
        kept == IF absNum > MaxAbs THEN absNum % (MaxAbs + 1) ELSE absNum
    IN  IF num < 0 THEN -kept ELSE kept

\* A plausible slip: the wrap applied to every number.
enforceMaxDigitsAlwaysWraps(num) == (FloorAbs(num) % MaxAbs) + 1

\* enforceMaxDigits: Math.floor(Math.abs(num)), 0 becomes 1, above 9999 wraps.
enforceMaxDigits(num) ==
    LET intNum0 == FloorAbs(num)
        intNum1 == IF intNum0 = 0 THEN 1 ELSE intNum0
    IN  IF intNum1 > MaxAbs THEN (intNum1 % MaxAbs) + 1 ELSE intNum1

\* NumberResponse: .refine(Math.abs(val) <= 9999) rejects the value, else
\* .transform(enforceMaxDigits) maps it.
NumberResponseAccepts(val) == Abs(val) <= Fixed(MaxAbs)
NumberResponseParse(val) == enforceMaxDigits(val)

-----------------------------------------------------------------------------
(* Data *)

Procs == {"p1", "p2"}          \* requests that may be in flight together
ClientIds == {"c1", "c2"}      \* sockets that may connect

Entry(q, n) == [question |-> q, number |-> n]

\* The questions a caller sends: "", " ", "W?", " w? " and "n".
Questions == { << >>, <<32>>, <<87, 63>>, <<32, 119, 63, 32>>, <<110>> }

\* What the model answers to a single question: a number (times Scale), here
\* -15 and 12345, or nothing when the call fails.
NoReply == [ok |-> FALSE, number |-> 0]
NumberReply(val) == [ok |-> TRUE, number |-> val]
OracleReplies == {NoReply, NumberReply(Fixed(-15)), NumberReply(Fixed(12345))}

\* A library the server wrote earlier: n entries with different questions.
FillerLibrary(n) == [i \in 1..n |-> Entry(<<19968 + i>>, i)]

NoData == [question |-> << >>, number |-> 0, numberSource |-> "none"]
NoResponse == [status |-> 0, message |-> "", number |-> 0, numberSource |-> "none"]
NoSuggestion == [status |-> 0, message |-> "", questions |-> << >>, count |-> 0]

-----------------------------------------------------------------------------
(* processQuestionLogic and POST /process-question *)

\* question.trim().toLowerCase(), entry.question.trim().toLowerCase()
Normalized(q) == ToLowerCase(Trim(q))

\* A plausible slip: the stored question compared as it is.
FindIndexExact(entries, q) ==
    LET hits == {i \in 1..Len(entries) : entries[i].question = q}
    IN  IF hits = {} THEN 0 ELSE CHOOSE i \in hits : \A j \in hits : i <= j

\* A plausible slip: the latest matching entry taken (findLast).
FindIndexLast(entries, q) ==
    LET hits == {i \in 1..Len(entries) :
                    Normalized(entries[i].question) = Normalized(q)}
    IN  IF hits = {} THEN 0 ELSE CHOOSE i \in hits : \A j \in hits : i >= j

\* questionsLibrary.find(...): index of the first matching entry, 0 if none.
\* (The normalized questions are computed once, as values bound in a set.)
FindIndex(entries, q) ==
    LET first(keys, key) ==
            IF \E i \in DOMAIN keys : keys[i] = key
            THEN CHOOSE i \in DOMAIN keys :
                    keys[i] = key /\ \A j \in 1..(i - 1) : keys[j] # key
            ELSE 0
    IN  CHOOSE found \in
            { first(keys, key) :
                keys \in {[i \in 1..Len(entries) |->
                              Normalized(entries[i].question)]},
                key \in {Normalized(q)} } : TRUE

\* A library file whose content parses but is no array, such as {} or null:
\* JSON.parse returns it, and find, push and the spread of it throw.
ObjectLibrary == [valid |-> TRUE, entries |-> << >>, object |-> TRUE]
IsArray(file) == "object" \notin DOMAIN file

\* fs.readFile + JSON.parse + find inside try/catch: a file that is missing,
\* does not parse or holds no array reads as no library.
ReadLibrary ==
    IF libraryFile.valid /\ IsArray(libraryFile) THEN libraryFile.entries
    ELSE << >>

\* if (!question): only the empty string (or no string at all) is refused.
QuestionMissing(q) == q = << >>

\* A plausible slip: the limit checked with > instead of >=.
LibraryFullOffByOne(existingLibrary) == Len(existingLibrary) > MaxLibrary

\* existingLibrary.length >= 1000
LibraryFull(existingLibrary) == Len(existingLibrary) >= MaxLibrary

\* A plausible slip: the question stored as it was sent.
NewEntryUntrimmed(q, n) == Entry(q, n)

\* newEntry
NewEntry(q, n) == Entry(Trim(q), n)

\* A plausible slip: a rejected call taken for an answer of 0.
OracleFailedNever(reply) == FALSE

\* openai.responses.parse rejects: the call failed, or the NumberResponse
\* schema refused the number.
OracleFailed(reply) == ~reply.ok \/ ~NumberResponseAccepts(reply.number)

\* A plausible slip: the question saved as it was asked.
CurrentQuestionDataUntrimmed(p) ==
    [question |-> question[p], number |-> constrainedNumber[p],
     numberSource |-> numberSource[p]]

\* currentQuestionData (the timestamp is left out)
CurrentQuestionData(p) ==
    [question |-> Trim(question[p]), number |-> constrainedNumber[p],
     numberSource |-> numberSource[p]]

\* A plausible slip: the question sent as it was asked.
MessageUntrimmed(p) ==
    [type |-> "number-update", number |-> constrainedNumber[p],
     question |-> question[p], numberSource |-> numberSource[p]]

\* the number-update message (the timestamp is left out)
Message(p) ==
    [type |-> "number-update", number |-> constrainedNumber[p],
     question |-> Trim(question[p]), numberSource |-> numberSource[p]]

\* A plausible slip: the readyState of the socket not looked at.
DeliveredToAll(msg) ==
    [c \in ClientIds |->
        IF readyState[c] \in {"OPEN", "CLOSING"} THEN Append(inbox[c], msg)
        ELSE inbox[c]]

\* wss.clients.forEach: the message is sent to the sockets that are OPEN.
Delivered(msg) ==
    [c \in ClientIds |->
        IF readyState[c] = "OPEN" THEN Append(inbox[c], msg) ELSE inbox[c]]

\* res.json(result), and res.status(code).json({ error, message })
Succeeded(n, src) ==
    [status |-> 200, message |-> "", number |-> n, numberSource |-> src]
Failed(code, msg) ==
    [status |-> code, message |-> msg, number |-> 0, numberSource |-> "none"]

\* A new request takes the first slot that is free.
FreeSlot(p) == pc[p] = "idle" /\ (p = "p2" => pc["p1"] # "idle")

\* The request arrives; processQuestionLogic runs up to its first await.
Receive(p, q) ==
    /\ FreeSlot(p)
    /\ calls < MaxCalls
    /\ calls' = calls + 1
    /\ question' = [question EXCEPT ![p] = q]
    /\ constrainedNumber' = [constrainedNumber EXCEPT ![p] = 0]
    /\ numberSource' = [numberSource EXCEPT ![p] = "none"]
    /\ oracleCalls' = [oracleCalls EXCEPT ![p] = 0]
    /\ lastReply' = [lastReply EXCEPT ![p] = NoReply]
    /\ known' = [known EXCEPT ![p] = cached]
    /\ route' = [route EXCEPT ![p] = "process-question"]
    /\ IF QuestionMissing(q)
       THEN /\ response' = [response EXCEPT ![p] = Failed(500, "Question is required")]
            /\ pc' = pc
       ELSE /\ response' = [response EXCEPT ![p] = NoResponse]
            /\ pc' = [pc EXCEPT ![p] = "lookup"]
    /\ UNCHANGED << files, sockets, pendingLibrary, batch, batches, writeFailures,
                    cached, normalizer,
                    sampler >>

\* The library has been read: take the stored number, or call the model.
Lookup(p) ==
    /\ pc[p] = "lookup"
    /\ \E i \in {FindIndex(ReadLibrary, question[p])} :
           IF i # 0
           THEN /\ constrainedNumber' = [constrainedNumber EXCEPT
                        ![p] = enforceMaxDigits(Fixed(ReadLibrary[i].number))]
                /\ numberSource' = [numberSource EXCEPT ![p] = "library"]
                /\ pc' = [pc EXCEPT ![p] = "saveCurrent"]
                /\ UNCHANGED oracleCalls
           ELSE /\ oracleCalls' = [oracleCalls EXCEPT ![p] = @ + 1]
                /\ pc' = [pc EXCEPT ![p] = "oracle"]
                /\ UNCHANGED << constrainedNumber, numberSource >>
    /\ UNCHANGED << files, sockets, question, pendingLibrary, response, lastReply,
                    known, route, batch, calls, batches, writeFailures, cached,
                    normalizer,
                    sampler >>

\* openai.responses.parse settles.  When it rejects, the handler answers 500;
\* else the parsed number is constrained again and the library is read.
OracleReply(p, reply) ==
    /\ pc[p] = "oracle"
    /\ lastReply' = [lastReply EXCEPT ![p] = reply]
    /\ IF OracleFailed(reply)
       THEN /\ response' = [response EXCEPT ![p] = Failed(500, "openai error")]
            /\ pc' = [pc EXCEPT ![p] = "idle"]
            /\ UNCHANGED << constrainedNumber, numberSource >>
       ELSE /\ constrainedNumber' = [constrainedNumber EXCEPT
                    ![p] = enforceMaxDigits(Fixed(NumberResponseParse(reply.number)))]
            /\ numberSource' = [numberSource EXCEPT ![p] = "gpt"]
            /\ pc' = [pc EXCEPT ![p] = "appendRead"]
            /\ UNCHANGED response
    /\ UNCHANGED << files, sockets, question, pendingLibrary, oracleCalls, known,
                    route, batch, calls, batches, writeFailures, cached,
                    normalizer,
                    sampler >>

\* A plausible slip: the append put off until the library file can be read.
AppendReadWaiting(p) ==
    /\ pc[p] = "appendRead"
    /\ libraryFile.valid
    /\ IF LibraryFull(ReadLibrary) \/ ~IsArray(libraryFile)
       THEN /\ pc' = [pc EXCEPT ![p] = "saveCurrent"]
            /\ UNCHANGED pendingLibrary
       ELSE /\ pendingLibrary' = [pendingLibrary EXCEPT ![p] =
                    Append(ReadLibrary, NewEntry(question[p], constrainedNumber[p]))]
            /\ pc' = [pc EXCEPT ![p] = "appendWrite"]
    /\ UNCHANGED << files, sockets, question, constrainedNumber, numberSource,
                    response, oracleCalls, lastReply, known, route, batch,
                    calls, batches, writeFailures, cached, normalizer,
                    sampler >>

\* The library has been read again: push the new entry and start writing the
\* file, unless the library is full; the push on a content that is no array
\* throws, which is logged and dropped.
AppendRead(p) ==
    /\ pc[p] = "appendRead"
    /\ IF LibraryFull(ReadLibrary) \/ ~IsArray(libraryFile)
       THEN /\ pc' = [pc EXCEPT ![p] = "saveCurrent"]
            /\ UNCHANGED pendingLibrary
       ELSE /\ pendingLibrary' = [pendingLibrary EXCEPT ![p] =
                    Append(ReadLibrary, NewEntry(question[p], constrainedNumber[p]))]
            /\ pc' = [pc EXCEPT ![p] = "appendWrite"]
    /\ UNCHANGED << files, sockets, question, constrainedNumber, numberSource,
                    response, oracleCalls, lastReply, known, route, batch,
                    calls, batches, writeFailures, cached, normalizer,
                    sampler >>

\* history: the entry a request has stored, when it is the first one for its
\* normalized question
Stored(entries) ==
    LET e == entries[Len(entries)]
    IN  IF FindIndex(entries, e.question) = Len(entries)
        THEN {[key |-> Normalized(e.question), number |-> e.number]}
        ELSE {}

\* fs.writeFile(libraryFilepath) settles; a rejection is logged and dropped.
AppendWrite(p, written) ==
    /\ pc[p] = "appendWrite"
    /\ IF written
       THEN /\ libraryFile' = [valid |-> TRUE, entries |-> pendingLibrary[p]]
            /\ cached' = cached \cup Stored(pendingLibrary[p])
            /\ UNCHANGED writeFailures
       ELSE /\ writeFailures < MaxWriteFailures
            /\ writeFailures' = writeFailures + 1
            /\ UNCHANGED << libraryFile, cached >>
    /\ pendingLibrary' = [pendingLibrary EXCEPT ![p] = << >>]
    /\ pc' = [pc EXCEPT ![p] = "saveCurrent"]
    /\ UNCHANGED << currentFile, sockets, question, constrainedNumber,
                    numberSource, response, oracleCalls, lastReply, known, route,
                    batch, calls, batches, normalizer,
                    sampler >>

\* A plausible slip: the write awaited outside the try, so that its rejection
\* fails the request before the broadcast.
SaveCurrentFatal(p, written) ==
    /\ pc[p] = "saveCurrent"
    /\ IF written
       THEN /\ currentFile' = [valid |-> TRUE, data |-> CurrentQuestionData(p)]
            /\ inbox' = Delivered(Message(p))
            /\ response' = [response EXCEPT
                    ![p] = Succeeded(constrainedNumber[p], numberSource[p])]
            /\ UNCHANGED writeFailures
       ELSE /\ writeFailures < MaxWriteFailures
            /\ writeFailures' = writeFailures + 1
            /\ response' = [response EXCEPT ![p] = Failed(500, "write error")]
            /\ UNCHANGED << currentFile, inbox >>
    /\ pc' = [pc EXCEPT ![p] = "idle"]
    /\ UNCHANGED << libraryFile, readyState, question, constrainedNumber,
                    numberSource, pendingLibrary, oracleCalls, lastReply, known,
                    route, batch, calls, batches, cached, normalizer,
                    sampler >>

\* fs.writeFile(currentQuestionPath) settles (a rejection is logged and
\* dropped), the message is broadcast and the result is returned.
SaveCurrent(p, written) ==
    /\ pc[p] = "saveCurrent"
    /\ IF written
       THEN /\ currentFile' = [valid |-> TRUE, data |-> CurrentQuestionData(p)]
            /\ UNCHANGED writeFailures
       ELSE /\ writeFailures < MaxWriteFailures
            /\ writeFailures' = writeFailures + 1
            /\ UNCHANGED currentFile
    /\ inbox' = Delivered(Message(p))
    /\ response' = [response EXCEPT
            ![p] = Succeeded(constrainedNumber[p], numberSource[p])]
    /\ pc' = [pc EXCEPT ![p] = "idle"]
    /\ UNCHANGED << libraryFile, readyState, question, constrainedNumber,
                    numberSource, pendingLibrary, oracleCalls, lastReply, known,
                    route, batch, calls, batches, cached, normalizer,
                    sampler >>

\* fs.writeFile(currentQuestionPath) opens, writes and closes the file in
\* steps of its own, so the data of a request may reach the file some time
\* before the await of that request resumes.  SaveCurrent is the run where
\* both happen together; the two actions below take them apart.

\* The data of the request reaches the current question file.
SaveCurrentLand(p) ==
    /\ pc[p] = "saveCurrent"
    /\ currentFile' = [valid |-> TRUE, data |-> CurrentQuestionData(p)]
    /\ pc' = [pc EXCEPT ![p] = "saveCurrentSettle"]
    /\ UNCHANGED << libraryFile, sockets, question, constrainedNumber,
                    numberSource, pendingLibrary, response, oracleCalls,
                    lastReply, known, route, batch, calls, batches,
                    writeFailures, cached, sampler, normalizer >>

\* The await resumes: the message is broadcast and the result is returned.
SaveCurrentSettle(p) ==
    /\ pc[p] = "saveCurrentSettle"
    /\ inbox' = Delivered(Message(p))
    /\ response' = [response EXCEPT
            ![p] = Succeeded(constrainedNumber[p], numberSource[p])]
    /\ pc' = [pc EXCEPT ![p] = "idle"]
    /\ UNCHANGED << files, readyState, question, constrainedNumber,
                    numberSource, pendingLibrary, oracleCalls, lastReply, known,
                    route, batch, calls, batches, writeFailures, cached,
                    sampler, normalizer >>

-----------------------------------------------------------------------------
(* GET /update-suggested-questions-library *)

\* What the model answers to the batch prompt: n pairs, the first one given
\* and the others with questions of their own; or nothing when the call fails.
BatchPairs(first, n) ==
    [i \in 1..n |-> IF i = 1 THEN first ELSE Entry(<<21000 + i>>, Fixed(i - 2))]

\* "W?" and "." as the first question
BatchQuestions == { <<87, 63>>, <<46>> }

NoBatchReply == [ok |-> FALSE, qaPairs |-> << >>]
BatchReplies ==
    {NoBatchReply}
        \cup {[ok |-> TRUE,
               qaPairs |-> BatchPairs(Entry(<<110>>, Fixed(7)), BatchLength - 1)]}
        \cup {[ok |-> TRUE,
               qaPairs |-> BatchPairs(Entry(q, Fixed(12345)), BatchLength)] :
                    q \in BatchQuestions}

\* A plausible slip: .max(25) in place of .length(25).
QAPairsResponseAcceptsFewer(qaPairs) == Len(qaPairs) <= BatchLength

\* QAPairsResponse: .length(25) on the array, .transform(enforceMaxDigits) on
\* every number.
QAPairsResponseAccepts(qaPairs) == Len(qaPairs) = BatchLength
QAPairsResponseParse(qaPairs) ==
    [i \in 1..Len(qaPairs) |->
        Entry(qaPairs[i].question, enforceMaxDigits(qaPairs[i].number))]

\* .trim().replace(/[,;]+$/, "").replace(/\.+$/, "").trim()
CleanQuestion(q) ==
    Trim(StripTrailing(StripTrailing(Trim(q), {Comma, Semicolon}), {Period}))

\* .filter((pair) => pair.question.length > 0)
RECURSIVE FilterNonEmpty(_)
FilterNonEmpty(pairs) ==
    IF pairs = << >> THEN << >>
    ELSE IF Len(Head(pairs).question) > 0
         THEN << Head(pairs) >> \o FilterNonEmpty(Tail(pairs))
         ELSE FilterNonEmpty(Tail(pairs))

\* qaPairsResult.qaPairs.map(...).filter(...)
CleanPairs(qaPairs) ==
    FilterNonEmpty([i \in 1..Len(qaPairs) |->
                      Entry(CleanQuestion(qaPairs[i].question),
                            enforceMaxDigits(Fixed(qaPairs[i].number)))])

\* [...existingQuestions, ...cleanedQAPairs]
AllQuestions(existingQuestions, cleaned) == existingQuestions \o cleaned

\* The request arrives: the API key is checked and the model is called.
BatchReceive(authorized) ==
    /\ bpc = "idle"
    /\ batches < MaxBatches
    /\ batches' = batches + 1
    /\ IF authorized
       THEN /\ bpc' = "oracle"
            /\ batchResponse' = NoResponse
       ELSE /\ bpc' = bpc
            /\ batchResponse' = Failed(401, "Valid API key required")
    /\ UNCHANGED << files, sockets, request, cleanedQAPairs, allQuestions,
                    batchReply, calls, writeFailures, cached, normalizer,
                    sampler >>

\* openai.responses.parse settles: the pairs are cleaned, or the request
\* answers 500 when the call failed or the schema refused the reply.
BatchOracleReply(reply) ==
    /\ bpc = "oracle"
    /\ batchReply' = [ok |-> reply.ok, length |-> Len(reply.qaPairs)]
    /\ IF reply.ok /\ QAPairsResponseAccepts(reply.qaPairs)
       THEN /\ cleanedQAPairs' = CleanPairs(QAPairsResponseParse(reply.qaPairs))
            /\ bpc' = "read"
            /\ UNCHANGED batchResponse
       ELSE /\ batchResponse' = Failed(500, "openai error")
            /\ bpc' = "idle"
            /\ UNCHANGED cleanedQAPairs
    /\ UNCHANGED << files, sockets, request, allQuestions, calls, batches,
                    writeFailures, cached, normalizer,
                    sampler >>

\* The library has been read: all pairs are added and the file is written;
\* the spread of a content that is no array throws to the outer catch.
BatchRead ==
    /\ bpc = "read"
    /\ IF IsArray(libraryFile)
       THEN /\ allQuestions' = AllQuestions(ReadLibrary, cleanedQAPairs)
            /\ bpc' = "write"
            /\ UNCHANGED batchResponse
       ELSE /\ batchResponse' = Failed(500, "not iterable")
            /\ bpc' = "idle"
            /\ UNCHANGED allQuestions
    /\ cleanedQAPairs' = << >>
    /\ UNCHANGED << files, sockets, request, batchReply, calls,
                    batches, writeFailures, cached, normalizer,
                    sampler >>

\* fs.writeFile(filepath) settles; a rejection reaches the outer catch.
BatchWrite(written) ==
    /\ bpc = "write"
    /\ IF written
       THEN /\ libraryFile' = [valid |-> TRUE, entries |-> allQuestions]
            /\ batchResponse' = Succeeded(0, "none")
            /\ UNCHANGED writeFailures
       ELSE /\ writeFailures < MaxWriteFailures
            /\ writeFailures' = writeFailures + 1
            /\ batchResponse' = Failed(500, "write error")
            /\ UNCHANGED libraryFile
    /\ allQuestions' = << >>
    /\ bpc' = "idle"
    /\ UNCHANGED << currentFile, sockets, request, cleanedQAPairs, batchReply,
                    calls, batches, cached, normalizer,
                    sampler >>

-----------------------------------------------------------------------------
(* GET /get-current-question *)

\* A plausible slip: the source of the number left out of the answer.
CurrentReadUnsourced(data) ==
    [status |-> 200, message |-> "", number |-> data.number,
     numberSource |-> "none", question |-> data.question]

\* res.json({ success: true, ...parsedData }): the file as it was read
CurrentRead(data) ==
    [status |-> 200, message |-> "", number |-> data.number,
     numberSource |-> data.numberSource, question |-> data.question]

\* The request arrives and the current question file is read.
GetCurrentReceive(p) ==
    /\ FreeSlot(p)
    /\ calls < MaxCalls
    /\ calls' = calls + 1
    /\ route' = [route EXCEPT ![p] = "get-current-question"]
    /\ question' = [question EXCEPT ![p] = << >>]
    /\ constrainedNumber' = [constrainedNumber EXCEPT ![p] = 0]
    /\ numberSource' = [numberSource EXCEPT ![p] = "none"]
    /\ oracleCalls' = [oracleCalls EXCEPT ![p] = 0]
    /\ lastReply' = [lastReply EXCEPT ![p] = NoReply]
    /\ known' = [known EXCEPT ![p] = cached]
    /\ response' = [response EXCEPT ![p] = NoResponse]
    /\ pc' = [pc EXCEPT ![p] = "readCurrent"]
    /\ UNCHANGED << files, sockets, pendingLibrary, batch, batches, writeFailures,
                    cached, sampler, normalizer >>

\* The current question file has been read: answer with its content, or read
\* the library when there is no such file.
GetCurrentRead(p) ==
    /\ pc[p] = "readCurrent"
    /\ IF currentFile.valid
       THEN /\ response' = [response EXCEPT ![p] = CurrentRead(currentFile.data)]
            /\ pc' = [pc EXCEPT ![p] = "idle"]
       ELSE /\ pc' = [pc EXCEPT ![p] = "readLibrary"]
            /\ UNCHANGED response
    /\ UNCHANGED << files, sockets, question, constrainedNumber, numberSource,
                    pendingLibrary, oracleCalls, lastReply, known, route, batch,
                    calls, batches, writeFailures, cached, sampler, normalizer >>

\* The library has been read: answer 404 when it is missing or empty, else
\* pick the question at randomIndex and run processQuestionLogic on it up to
\* its first await.  What processQuestionLogic throws is caught by the catch
\* of the library read.
GetCurrentPick(p, randomIndex) ==
    /\ pc[p] = "readLibrary"
    /\ IF ~libraryFile.valid
       THEN /\ randomIndex = 0
            /\ response' = [response EXCEPT ![p] = Failed(404, "Library not found")]
            /\ pc' = [pc EXCEPT ![p] = "idle"]
            /\ UNCHANGED question
       ELSE IF Len(ReadLibrary) = 0
       THEN /\ randomIndex = 0
            /\ response' = [response EXCEPT
                    ![p] = Failed(404, "No questions available")]
            /\ pc' = [pc EXCEPT ![p] = "idle"]
            /\ UNCHANGED question
       ELSE /\ randomIndex \in 1..Len(ReadLibrary)
            /\ question' = [question EXCEPT ![p] = ReadLibrary[randomIndex].question]
            /\ IF QuestionMissing(ReadLibrary[randomIndex].question)
               THEN /\ response' = [response EXCEPT
                            ![p] = Failed(404, "Library not found")]
                    /\ pc' = [pc EXCEPT ![p] = "idle"]
               ELSE /\ pc' = [pc EXCEPT ![p] = "lookup"]
                    /\ UNCHANGED response
    /\ UNCHANGED << files, sockets, constrainedNumber, numberSource,
                    pendingLibrary, oracleCalls, lastReply, known, route, batch,
                    calls, batches, writeFailures, cached, sampler, normalizer >>

\* What the route answers once its request is over: the file as it was read,
\* a 404, or, after processQuestionLogic, its result marked autoGenerated;
\* an error thrown by processQuestionLogic is answered by catch (libraryErr).
CurrentAnswer(p) ==
    IF numberSource[p] # "none" /\ response[p].status = 200
    THEN [status |-> 200, message |-> "", number |-> response[p].number,
          numberSource |-> response[p].numberSource,
          question |-> Trim(question[p]), autoGenerated |-> TRUE]
    ELSE IF response[p].status = 500
    THEN Failed(404, "Library not found") @@ [autoGenerated |-> FALSE]
    ELSE response[p] @@ [autoGenerated |-> FALSE]

-----------------------------------------------------------------------------
(* GET /get-suggested-questions *)

Min(a, b) == IF a < b THEN a ELSE b

\* The orders [...questionsLibrary].sort(() => Math.random() - 0.5) may leave
\* n entries in: every order of up to 4 entries, and the rotations of more.
Shuffles(n) ==
    IF n <= 4 THEN Permutations(1..n)
    ELSE {[i \in 1..n |-> ((i + k - 1) % n) + 1] : k \in 0..(n - 1)}

\* shuffled.slice(0, numberOfQuestions).map((item) => item.question)
RandomQuestions(questionsLibrary, order) ==
    [i \in 1..Min(SuggestedCount, Len(questionsLibrary)) |->
        questionsLibrary[order[i]].question]

\* The request arrives, the library is read and the request answers.
GetSuggestedQuestions(order) ==
    /\ samples < MaxSamples
    /\ samples' = samples + 1
    /\ order \in Shuffles(Len(ReadLibrary))
    /\ suggested' =
            IF ~libraryFile.valid
            THEN [status |-> 404, message |-> "Library not found",
                  questions |-> << >>, count |-> 0]
            ELSE IF Len(ReadLibrary) = 0
            THEN [status |-> 404, message |-> "No questions available",
                  questions |-> << >>, count |-> 0]
            ELSE [status |-> 200, message |-> "",
                  questions |-> RandomQuestions(ReadLibrary, order),
                  count |-> Len(RandomQuestions(ReadLibrary, order))]
    /\ UNCHANGED << files, sockets, request, batch, calls, batches, writeFailures,
                    cached, normalizer >>

-----------------------------------------------------------------------------
(* WebSocket clients *)

\* wss.on("connection")
Connect(c) ==
    /\ readyState[c] = "NONE"
    /\ readyState' = [readyState EXCEPT ![c] = "OPEN"]
    /\ UNCHANGED << files, inbox, request, batch, calls, batches, writeFailures,
                    cached, normalizer,
                    sampler >>

\* The closing handshake starts: the socket stays in wss.clients.
BeginClose(c) ==
    /\ readyState[c] = "OPEN"
    /\ readyState' = [readyState EXCEPT ![c] = "CLOSING"]
    /\ UNCHANGED << files, inbox, request, batch, calls, batches, writeFailures,
                    cached, normalizer,
                    sampler >>

\* ws.on("close"): the socket leaves wss.clients.
Close(c) ==
    /\ readyState[c] \in {"OPEN", "CLOSING"}
    /\ readyState' = [readyState EXCEPT ![c] = "CLOSED"]
    /\ UNCHANGED << files, inbox, request, batch, calls, batches, writeFailures,
                    cached, normalizer,
                    sampler >>

-----------------------------------------------------------------------------
(* The server *)

\* The library file when the server starts: none yet, or one entry "W?" -> 4.
InitialLibraries ==
    { [valid |-> FALSE, entries |-> << >>],
      [valid |-> TRUE, entries |-> << Entry(<<87, 63>>, 4) >>] }

\* The server has started: no request, no socket, no current question.
Started ==
    /\ currentFile = [valid |-> FALSE, data |-> NoData]
    /\ readyState = [c \in ClientIds |-> "NONE"]
    /\ inbox = [c \in ClientIds |-> << >>]
    /\ pc = [p \in Procs |-> "idle"]
    /\ question = [p \in Procs |-> << >>]
    /\ constrainedNumber = [p \in Procs |-> 0]
    /\ numberSource = [p \in Procs |-> "none"]
    /\ pendingLibrary = [p \in Procs |-> << >>]
    /\ response = [p \in Procs |-> NoResponse]
    /\ oracleCalls = [p \in Procs |-> 0]
    /\ lastReply = [p \in Procs |-> NoReply]
    /\ known = [p \in Procs |-> {}]
    /\ route = [p \in Procs |-> "none"]
    /\ bpc = "idle"
    /\ cleanedQAPairs = << >>
    /\ allQuestions = << >>
    /\ batchResponse = NoResponse
    /\ batchReply = [ok |-> FALSE, length |-> 0]
    /\ calls = 0
    /\ batches = 0
    /\ writeFailures = 0
    /\ cached = {}
    /\ suggested = NoSuggestion
    /\ samples = 0

Init ==
    /\ libraryFile \in InitialLibraries
    /\ Started
    /\ raw = 0
    /\ out = -1
    /\ again = -1

\* The sockets that connect while requests are served.
Listeners == {"c1"}

Next ==
    \/ \E p \in Procs, q \in Questions : Receive(p, q)
    \/ \E p \in Procs : Lookup(p)
    \/ \E p \in Procs, reply \in OracleReplies : OracleReply(p, reply)
    \/ \E p \in Procs : AppendRead(p)
    \/ \E p \in Procs, written \in BOOLEAN : AppendWrite(p, written)
    \/ \E p \in Procs, written \in BOOLEAN : SaveCurrent(p, written)
    \/ \E authorized \in BOOLEAN : BatchReceive(authorized)
    \/ \E reply \in BatchReplies : BatchOracleReply(reply)
    \/ BatchRead
    \/ \E written \in BOOLEAN : BatchWrite(written)
    \/ \E c \in Listeners : Connect(c)

Spec == Init /\ [][Next]_vars

TypeOK ==
    /\ libraryFile.valid \in BOOLEAN
    /\ ~IsArray(libraryFile) => libraryFile = ObjectLibrary
    /\ currentFile.valid \in BOOLEAN
    /\ \A c \in ClientIds : readyState[c] \in {"NONE", "OPEN", "CLOSING", "CLOSED"}
    /\ \A p \in Procs : pc[p] \in {"idle", "lookup", "oracle", "appendRead",
                                    "appendWrite", "saveCurrent",
                                    "readCurrent", "readLibrary",
                                    "saveCurrentSettle"}
    /\ bpc \in {"idle", "oracle", "read", "write"}
    /\ calls \in 0..MaxCalls
    /\ batches \in 0..MaxBatches
    /\ writeFailures \in 0..MaxWriteFailures
    /\ samples \in 0..MaxSamples

-----------------------------------------------------------------------------
(* The server with a library at its limit *)

\* The library file holds 999 or 1000 entries when the server starts.
CapInit ==
    /\ libraryFile \in { [valid |-> TRUE, entries |-> FillerLibrary(MaxLibrary - 1)],
                         [valid |-> TRUE, entries |-> FillerLibrary(MaxLibrary)] }
    /\ Started
    /\ raw = 0
    /\ out = -1
    /\ again = -1

\* "n" is asked, the model answers -15, and a batch of 25 pairs.
CapQuestions == { <<110>> }
CapReplies == { NumberReply(Fixed(-15)) }
CapBatchReplies ==
    { [ok |-> TRUE,
       qaPairs |-> BatchPairs(Entry(<<87, 63>>, Fixed(12345)), BatchLength)] }

CapNext ==
    \/ \E p \in Procs, q \in CapQuestions : Receive(p, q)
    \/ \E p \in Procs : Lookup(p)
    \/ \E p \in Procs, reply \in CapReplies : OracleReply(p, reply)
    \/ \E p \in Procs : AppendRead(p)
    \/ \E p \in Procs, written \in BOOLEAN : AppendWrite(p, written)
    \/ \E p \in Procs, written \in BOOLEAN : SaveCurrent(p, written)
    \/ BatchReceive(TRUE)
    \/ \E reply \in CapBatchReplies : BatchOracleReply(reply)
    \/ BatchRead
    \/ \E written \in BOOLEAN : BatchWrite(written)
    \/ \E c \in Listeners : Connect(c)

CapSpec == CapInit /\ [][CapNext]_vars

-----------------------------------------------------------------------------
(* The server with sockets that come and go *)

\* "" and " w? " are asked; the model answers -15 or 12345, or fails.
ClientQuestions == { << >>, <<32, 119, 63, 32>> }
ClientReplies == OracleReplies

ClientNext ==
    \/ \E p \in Procs, q \in ClientQuestions : Receive(p, q)
    \/ \E p \in Procs : Lookup(p)
    \/ \E p \in Procs, reply \in ClientReplies : OracleReply(p, reply)
    \/ \E p \in Procs : AppendRead(p)
    \/ \E p \in Procs, written \in BOOLEAN : AppendWrite(p, written)
    \/ \E p \in Procs, written \in BOOLEAN : SaveCurrent(p, written)
    \/ \E c \in ClientIds : Connect(c)
    \/ \E c \in ClientIds : BeginClose(c)
    \/ \E c \in ClientIds : Close(c)

ClientSpec == Init /\ [][ClientNext]_vars

-----------------------------------------------------------------------------
(* The server with batch requests *)

\* "n" is asked and the model answers -15; the batch prompt is answered with
\* 25 pairs, with 24 pairs, or the call fails.
BatchQuestionsAsked == { <<110>> }
BatchNumberReplies == { NumberReply(Fixed(-15)) }
BatchSpecReplies ==
    { NoBatchReply,
      [ok |-> TRUE, qaPairs |-> BatchPairs(Entry(<<110>>, Fixed(7)), BatchLength - 1)],
      [ok |-> TRUE, qaPairs |-> BatchPairs(Entry(<<110>>, Fixed(7)), BatchLength)] }

BatchNext ==
    \/ \E p \in Procs, q \in BatchQuestionsAsked : Receive(p, q)
    \/ \E p \in Procs : Lookup(p)
    \/ \E p \in Procs, reply \in BatchNumberReplies : OracleReply(p, reply)
    \/ \E p \in Procs : AppendRead(p)
    \/ \E p \in Procs, written \in BOOLEAN : AppendWrite(p, written)
    \/ \E p \in Procs, written \in BOOLEAN : SaveCurrent(p, written)
    \/ \E authorized \in BOOLEAN : BatchReceive(authorized)
    \/ \E reply \in BatchSpecReplies : BatchOracleReply(reply)
    \/ BatchRead
    \/ \E written \in BOOLEAN : BatchWrite(written)
    \/ \E c \in Listeners : Connect(c)

BatchSpec == Init /\ [][BatchNext]_vars

-----------------------------------------------------------------------------
(* The server with the routes that read *)

\* The library holds nothing or "W?" -> 4; the current question file is
\* missing, or holds "W?" -> 4 taken from the library.
ReadInit ==
    /\ \/ /\ libraryFile \in InitialLibraries
          /\ currentFile = [valid |-> FALSE, data |-> NoData]
       \/ /\ libraryFile = [valid |-> TRUE, entries |-> << Entry(<<87, 63>>, 4) >>]
          /\ currentFile = [valid |-> TRUE,
                            data |-> [question |-> <<87, 63>>, number |-> 4,
                                      numberSource |-> "library"]]
    /\ readyState = [c \in ClientIds |-> "NONE"]
    /\ inbox = [c \in ClientIds |-> << >>]
    /\ pc = [p \in Procs |-> "idle"]
    /\ question = [p \in Procs |-> << >>]
    /\ constrainedNumber = [p \in Procs |-> 0]
    /\ numberSource = [p \in Procs |-> "none"]
    /\ pendingLibrary = [p \in Procs |-> << >>]
    /\ response = [p \in Procs |-> NoResponse]
    /\ oracleCalls = [p \in Procs |-> 0]
    /\ lastReply = [p \in Procs |-> NoReply]
    /\ known = [p \in Procs |-> {}]
    /\ route = [p \in Procs |-> "none"]
    /\ bpc = "idle"
    /\ cleanedQAPairs = << >>
    /\ allQuestions = << >>
    /\ batchResponse = NoResponse
    /\ batchReply = [ok |-> FALSE, length |-> 0]
    /\ calls = 0
    /\ batches = 0
    /\ writeFailures = 0
    /\ cached = {}
    /\ suggested = NoSuggestion
    /\ samples = 0
    /\ raw = 0
    /\ out = -1
    /\ again = -1

\* " w? " is asked; the model answers -15 or fails, and 25 pairs to the batch
\* prompt, the first one "n" -> 7.
ReadQuestions == { <<32, 119, 63, 32>> }
ReadReplies == { NoReply, NumberReply(Fixed(-15)) }
ReadBatchReplies ==
    { [ok |-> TRUE, qaPairs |-> BatchPairs(Entry(<<110>>, Fixed(7)), BatchLength)] }

ReadNext ==
    \/ \E p \in Procs, q \in ReadQuestions : Receive(p, q)
    \/ \E p \in Procs : Lookup(p)
    \/ \E p \in Procs, reply \in ReadReplies : OracleReply(p, reply)
    \/ \E p \in Procs : AppendRead(p)
    \/ \E p \in Procs, written \in BOOLEAN : AppendWrite(p, written)
    \/ \E p \in Procs, written \in BOOLEAN : SaveCurrent(p, written)
    \/ \E p \in Procs : GetCurrentReceive(p)
    \/ \E p \in Procs : GetCurrentRead(p)
    \/ \E p \in Procs, randomIndex \in 0..Len(ReadLibrary) :
            GetCurrentPick(p, randomIndex)
    \/ BatchReceive(TRUE)
    \/ \E reply \in ReadBatchReplies : BatchOracleReply(reply)
    \/ BatchRead
    \/ \E written \in BOOLEAN : BatchWrite(written)

ReadSpec == ReadInit /\ [][ReadNext]_vars

\* A step of processQuestionLogic for the request in slot p: one of its
\* awaits settles and the function runs on to the next one, or to its end.
ResolveStep(p) ==
    \/ Lookup(p)
    \/ \E reply \in ReadReplies : OracleReply(p, reply)
    \/ AppendRead(p)
    \/ \E written \in BOOLEAN : AppendWrite(p, written)
    \/ \E written \in BOOLEAN : SaveCurrent(p, written)

\* The same server under the scheduling of the event loop: a file operation
\* that was started settles, the model answers or fails, and the function
\* waiting for either is resumed.
LiveSpec == ReadSpec /\ \A p \in Procs : WF_vars(ResolveStep(p))

\* The same server when no batch request comes; " w? " and "n" are asked.
CurrentQuestions == { <<32, 119, 63, 32>>, <<110>> }

CurrentNext ==
    \/ \E p \in Procs, q \in CurrentQuestions : Receive(p, q)
    \/ \E p \in Procs : Lookup(p)
    \/ \E p \in Procs, reply \in ReadReplies : OracleReply(p, reply)
    \/ \E p \in Procs : AppendRead(p)
    \/ \E p \in Procs, written \in BOOLEAN : AppendWrite(p, written)
    \/ \E p \in Procs, written \in BOOLEAN : SaveCurrent(p, written)
    \/ \E p \in Procs : GetCurrentReceive(p)
    \/ \E p \in Procs : GetCurrentRead(p)
    \/ \E p \in Procs, randomIndex \in 0..Len(ReadLibrary) :
            GetCurrentPick(p, randomIndex)
    \/ \E c \in Listeners : Connect(c)

CurrentSpec == ReadInit /\ [][CurrentNext]_vars

-----------------------------------------------------------------------------
(* The server with the route that suggests questions *)

\* The library holds nothing, "W?" -> 4, or 26 entries.
SampleInit ==
    /\ libraryFile \in InitialLibraries
            \cup { [valid |-> TRUE, entries |-> FillerLibrary(SuggestedCount + 1)] }
    /\ Started
    /\ raw = 0
    /\ out = -1
    /\ again = -1

\* " w? " is asked and the model answers -15.
SampleQuestions == { <<32, 119, 63, 32>> }
SampleReplies == { NumberReply(Fixed(-15)) }

SampleNext ==
    \/ \E p \in Procs, q \in SampleQuestions : Receive(p, q)
    \/ \E p \in Procs : Lookup(p)
    \/ \E p \in Procs, reply \in SampleReplies : OracleReply(p, reply)
    \/ \E p \in Procs : AppendRead(p)
    \/ \E p \in Procs, written \in BOOLEAN : AppendWrite(p, written)
    \/ \E p \in Procs, written \in BOOLEAN : SaveCurrent(p, written)
    \/ \E order \in Shuffles(Len(ReadLibrary)) : GetSuggestedQuestions(order)

SampleSpec == SampleInit /\ [][SampleNext]_vars

-----------------------------------------------------------------------------
(* The server with batch requests only *)

\* The model answers the batch prompt with 25 pairs, the first question being
\* any string of up to MaxQuestionLen of "x", ".", ",", ";" and " ", its
\* number 12345.
CleanAlphabet == { 120, Period, Comma, Semicolon, 32 }
CleanInputs == UNION { [1..n -> CleanAlphabet] : n \in 0..MaxQuestionLen }
CleanReplies ==
    { [ok |-> TRUE, qaPairs |-> BatchPairs(Entry(q, Fixed(12345)), BatchLength)] :
        q \in CleanInputs }

CleanNext ==
    \/ \E authorized \in BOOLEAN : BatchReceive(authorized)
    \/ \E reply \in CleanReplies : BatchOracleReply(reply)
    \/ BatchRead
    \/ \E written \in BOOLEAN : BatchWrite(written)

CleanSpec == Init /\ [][CleanNext]_vars

-----------------------------------------------------------------------------
(* The server started on a library file that is no library *)

\* data/library.json is missing or does not parse, or it holds {}.
CorruptLibraries == { [valid |-> FALSE, entries |-> << >>], ObjectLibrary }

CorruptInit ==
    /\ libraryFile \in CorruptLibraries
    /\ Started
    /\ raw = 0
    /\ out = -1
    /\ again = -1

\* "n" is asked and the model answers -15; the batch prompt is answered with
\* 25 pairs, the first one "n" -> 7.
CorruptNext ==
    \/ \E p \in Procs, q \in BatchQuestionsAsked : Receive(p, q)
    \/ \E p \in Procs : Lookup(p)
    \/ \E p \in Procs, reply \in BatchNumberReplies : OracleReply(p, reply)
    \/ \E p \in Procs : AppendRead(p)
    \/ \E p \in Procs, written \in BOOLEAN : AppendWrite(p, written)
    \/ \E p \in Procs, written \in BOOLEAN : SaveCurrent(p, written)
    \/ BatchReceive(TRUE)
    \/ \E reply \in ReadBatchReplies : BatchOracleReply(reply)
    \/ BatchRead
    \/ \E written \in BOOLEAN : BatchWrite(written)

CorruptSpec == CorruptInit /\ [][CorruptNext]_vars

-----------------------------------------------------------------------------
(* The server with the write of the current question taken apart *)

\* " w? " and "n" are asked and the model answers -15.
StateQuestions == { <<32, 119, 63, 32>>, <<110>> }
StateReplies == { NumberReply(Fixed(-15)) }

StateNext ==
    \/ \E p \in Procs, q \in StateQuestions : Receive(p, q)
    \/ \E p \in Procs : Lookup(p)
    \/ \E p \in Procs, reply \in StateReplies : OracleReply(p, reply)
    \/ \E p \in Procs : AppendRead(p)
    \/ \E p \in Procs, written \in BOOLEAN : AppendWrite(p, written)
    \/ \E p \in Procs : SaveCurrentLand(p)
    \/ \E p \in Procs : SaveCurrentSettle(p)
    \/ \E c \in Listeners : Connect(c)

StateSpec == Init /\ [][StateNext]_vars

-----------------------------------------------------------------------------
(* The normalizer alone *)

\* The values around which the result changes.
EdgeValues == {0, 3, 9998, 9999, 10000, 19997, 19998}

\* Every integer up to MaxRaw, and every fraction next to an edge value, with
\* both signs.
RawInputs ==
    {Fixed(n) : n \in -MaxRaw..MaxRaw}
        \cup {Fixed(e) + f : e \in EdgeValues, f \in 0..(Scale - 1)}
        \cup {-(Fixed(e) + f) : e \in EdgeValues, f \in 0..(Scale - 1)}

NormInit ==
    /\ libraryFile = [valid |-> FALSE, entries |-> << >>]
    /\ Started
    /\ raw \in RawInputs
    /\ out = -1
    /\ again = -1

\* enforceMaxDigits(raw) is evaluated.
Normalize ==
    /\ out = -1
    /\ out' = enforceMaxDigits(raw)
    /\ UNCHANGED << files, sockets, request, batch, calls, batches, writeFailures,
                    cached, raw, again, sampler >>

NormNext == Normalize

NormSpec == NormInit /\ [][NormNext]_vars

\* enforceMaxDigits is evaluated on the number it returned: the backup call
\* after the schema transform, or the call on a number read from the library.
NormalizeAgain ==
    /\ out # -1
    /\ again = -1
    /\ again' = enforceMaxDigits(Fixed(out))
    /\ UNCHANGED << files, sockets, request, batch, calls, batches, writeFailures,
                    cached, raw, out, sampler >>

TwiceNext == Normalize \/ NormalizeAgain

TwiceSpec == NormInit /\ [][TwiceNext]_vars

-----------------------------------------------------------------------------
(* Claims *)

\* The normalizer as the specification states it: m = floor(|r|); 1 when m is
\* 0, (m mod 9999) + 1 when m exceeds 9999, else m.
Reference(r) ==
    LET m == (IF r < 0 THEN 0 - r ELSE r) \div Scale
    IN  CASE m = 0 -> 1
          [] m > 9999 -> (m % 9999) + 1
          [] OTHER -> m

\* The library read now holds an entry for the question q.
HasEntryFor(q) ==
    \E i \in 1..Len(ReadLibrary) :
        ToLowerCase(Trim(ReadLibrary[i].question)) = ToLowerCase(Trim(q))

\* The earliest of these entries.
FirstEntryFor(q) ==
    LET same(i) == ToLowerCase(Trim(ReadLibrary[i].question)) = ToLowerCase(Trim(q))
    IN  ReadLibrary[CHOOSE i \in 1..Len(ReadLibrary) :
                        same(i) /\ \A j \in 1..(i - 1) : ~same(j)]

C2_NormalizeInRange == out # -1 => out \in 1..9999

\* -12345 has been normalized, to 2347.
C2_Witness == raw = Fixed(-12345) /\ out = 2347

\* C3: the normalizer returns what the reference function returns; 0 gives 1,
\* 9999 gives 9999, 10000 gives 2, -15 gives 15, 12345 gives 2347, and a
\* fraction between 3 and 4 gives 3.
C3_NormalizeIsReference ==
    out # -1 =>
        /\ out = Reference(raw)
        /\ raw = Fixed(0) => out = 1
        /\ raw = Fixed(9999) => out = 9999
        /\ raw = Fixed(10000) => out = 2
        /\ raw = Fixed(-15) => out = 15
        /\ raw = Fixed(12345) => out = 2347
        /\ raw = Fixed(3) + (Scale - 1) => out = 3

\* 12345 has been normalized, to 2347.
C3_Witness == raw = Fixed(12345) /\ out = 2347

\* C4: the library file never holds more than 1000 entries, whatever requests
\* and batch requests run and however they interleave.
C4_LibraryWithinLimit == Len(ReadLibrary) <= 1000

\* C5: when the library read by a request holds an entry for its question
\* (both trimmed and lower-cased), the request takes the number of that entry
\* (the earliest one), from the library, without calling the model, and
\* returns that number and source.
C5_LibraryHit ==
    /\ [](\A p \in Procs : numberSource[p] = "library" => oracleCalls[p] = 0)
    /\ [][\A p \in Procs :
            /\ (pc[p] = "lookup" /\ pc'[p] # "lookup" /\ HasEntryFor(question[p])) =>
                  /\ pc'[p] = "saveCurrent"
                  /\ numberSource'[p] = "library"
                  /\ constrainedNumber'[p] = FirstEntryFor(question[p]).number
                  /\ oracleCalls'[p] = 0
            /\ (pc[p] = "saveCurrent" /\ pc'[p] = "idle") =>
                  /\ response'[p] = Succeeded(constrainedNumber[p], numberSource[p])
                  /\ oracleCalls'[p] = oracleCalls[p]
        ]_vars

\* " w? " has been asked with "W?" -> 4 in the library, and 4 has been returned
\* from the library without a call to the model.
C5_Witness ==
    \E p \in Procs :
        /\ question[p] = <<32, 119, 63, 32>>
        /\ response[p] = Succeeded(4, "library")
        /\ oracleCalls[p] = 0
        /\ libraryFile.valid
        /\ libraryFile.entries[1] = Entry(<<87, 63>>, 4)

\* C6 as stated: whatever number the model returns, 12345 included, a request
\* that missed the library returns that number normalized, with the model as
\* source.
C6_AnyReplyResolves ==
    \A p \in Procs :
        (lastReply[p].ok /\ pc[p] = "idle") =>
            response[p] = Succeeded(Reference(lastReply[p].number), "gpt")

\* C6 as amended: a request that missed the library returns the model's number
\* normalized, with the model as source, when that number is within -9999 and
\* 9999; a number beyond is refused and the request fails as when the call to
\* the model fails, changing neither file and sending nothing.  When the
\* library read after the call holds fewer than 1000 entries, the file is
\* written with these entries followed by exactly one more, the trimmed
\* question with the normalized number, unless the write is rejected.
C6_AcceptedReplyResolves ==
    /\ [](\A p \in Procs :
            (lastReply[p].ok /\ pc[p] = "idle") =>
                IF lastReply[p].number \in (0 - Fixed(9999))..Fixed(9999)
                THEN response[p] = Succeeded(Reference(lastReply[p].number), "gpt")
                ELSE response[p] = Failed(500, "openai error"))
    /\ [][\A p \in Procs :
            /\ (pc[p] = "oracle" /\ pc'[p] = "idle") =>
                  UNCHANGED << libraryFile, currentFile, inbox >>
            /\ (pc[p] = "appendRead" /\ pc'[p] # "appendRead"
                    /\ Len(ReadLibrary) < 1000) =>
                  /\ pc'[p] = "appendWrite"
                  /\ pendingLibrary'[p] =
                        ReadLibrary \o << Entry(Trim(question[p]),
                                                Reference(lastReply[p].number)) >>
            /\ (pc[p] = "appendWrite" /\ pc'[p] # "appendWrite") =>
                  \/ libraryFile' = [valid |-> TRUE, entries |-> pendingLibrary[p]]
                  \/ /\ UNCHANGED libraryFile
                     /\ writeFailures' = writeFailures + 1
        ]_vars

\* " w? " has been asked with no library, the model has answered -15, and the
\* request has returned 15 and stored the one entry "w?" -> 15.
C6_Witness ==
    \E p \in Procs :
        /\ question[p] = <<32, 119, 63, 32>>
        /\ lastReply[p] = NumberReply(Fixed(-15))
        /\ response[p] = Succeeded(15, "gpt")
        /\ libraryFile = [valid |-> TRUE, entries |-> << Entry(<<119, 63>>, 15) >>]

\* C7: once a request answered by the model has stored its entry, the first
\* one for its normalized question, every request that arrives later with a
\* question of the same normalized text takes that number from the library,
\* without calling the model, and returns it.
C7_CacheRoundTrip ==
    \A p \in Procs : \A e \in known[p] :
        (/\ e.key = ToLowerCase(Trim(question[p]))
         /\ Trim(question[p]) # << >>
         /\ pc[p] # "lookup"
         /\ (pc[p] # "idle" \/ response[p] # NoResponse)) =>
            /\ numberSource[p] = "library"
            /\ constrainedNumber[p] = e.number
            /\ oracleCalls[p] = 0
            /\ pc[p] = "idle" => response[p] = Succeeded(e.number, "library")

\* C8: a request whose trimmed question is empty fails with "Question is
\* required" at once, without calling the model, and the library never holds
\* an entry with an empty question.
C8_EmptyQuestionRejected ==
    /\ \A p \in Procs :
          (Trim(question[p]) = << >> /\ (pc[p] # "idle" \/ response[p] # NoResponse)) =>
              /\ pc[p] = "idle"
              /\ response[p] = Failed(500, "Question is required")
              /\ oracleCalls[p] = 0
    /\ \A i \in 1..Len(ReadLibrary) : ReadLibrary[i].question # << >>

\* C9: when the call to the model fails, the request fails with a 500, and no
\* step of the request up to there has changed the library file or the current
\* question file or sent a message.
C9_OracleFailureChangesNothing ==
    /\ [](\A p \in Procs :
            (oracleCalls[p] > 0 /\ pc[p] # "oracle" /\ ~lastReply[p].ok) =>
                /\ pc[p] = "idle"
                /\ response[p] = Failed(500, "openai error"))
    /\ [][\A p \in Procs :
            (pc[p] \in {"idle", "lookup", "oracle"} /\ pc'[p] # pc[p]) =>
                UNCHANGED << libraryFile, currentFile, inbox >>
        ]_vars

\* A request has failed on the model with a library and a current question on
\* disk and a message already sent to c1.
C9_Witness ==
    \E p \in Procs :
        /\ response[p] = Failed(500, "openai error")
        /\ oracleCalls[p] = 1
        /\ lastReply[p] = NoReply
        /\ libraryFile.valid
        /\ currentFile.valid
        /\ Len(inbox["c1"]) = 1

\* C10: a request answered by the model that reads a library of 1000 entries
\* or more writes nothing to the library file and still returns the normalized
\* number with the model as source and status 200, sends the message to the
\* open sockets and writes the current question file (unless that write is
\* rejected, which is dropped).
C10_FullLibraryStillResolves ==
    [][\A p \in Procs :
          /\ (pc[p] = "appendRead" /\ pc'[p] # "appendRead"
                  /\ Len(ReadLibrary) >= 1000) =>
                /\ pc'[p] = "saveCurrent"
                /\ pendingLibrary'[p] = << >>
                /\ UNCHANGED libraryFile
          /\ (pc[p] = "saveCurrent" /\ pc'[p] = "idle" /\ numberSource[p] = "gpt") =>
                /\ UNCHANGED libraryFile
                /\ response'[p] = Succeeded(Reference(lastReply[p].number), "gpt")
                /\ \A c \in ClientIds :
                      readyState[c] = "OPEN" =>
                          inbox'[c] = Append(inbox[c],
                              [type |-> "number-update",
                               number |-> Reference(lastReply[p].number),
                               question |-> Trim(question[p]),
                               numberSource |-> "gpt"])
                /\ \/ currentFile' =
                          [valid |-> TRUE,
                           data |-> [question |-> Trim(question[p]),
                                     number |-> Reference(lastReply[p].number),
                                     numberSource |-> "gpt"]]
                   \/ /\ UNCHANGED currentFile
                      /\ writeFailures' = writeFailures + 1
      ]_vars

\* With the library still the 1000 entries it started with, a request has
\* returned 15 from the model, the current question file holds 15 and c1 has
\* been sent 15.
C10_Witness ==
    \E p \in Procs :
        /\ libraryFile = [valid |-> TRUE, entries |-> FillerLibrary(1000)]
        /\ response[p] = Succeeded(15, "gpt")
        /\ currentFile.valid
        /\ currentFile.data.number = 15
        /\ Len(inbox["c1"]) > 0
        /\ inbox["c1"][Len(inbox["c1"])].number = 15

\* C11: the step on which a request returns its result sends one
\* number-update message, with the number and source of that result and the
\* trimmed question, to every socket that is open at that step; no other step
\* sends anything, so a request that fails sends nothing.
C11_SuccessPublishesOnce ==
    [][/\ \A p \in Procs :
            /\ (pc[p] = "saveCurrent" /\ pc'[p] = "idle") =>
                  /\ response'[p].status = 200
                  /\ \A c \in ClientIds :
                        readyState[c] = "OPEN" =>
                            inbox'[c] = Append(inbox[c],
                                [type |-> "number-update",
                                 number |-> response'[p].number,
                                 question |-> Trim(question[p]),
                                 numberSource |-> response'[p].numberSource])
            /\ (response'[p] # response[p] /\ response'[p].status = 200) =>
                  pc[p] = "saveCurrent"
            /\ (response'[p] # response[p] /\ response'[p].status # 200) =>
                  inbox' = inbox
       /\ (\A p \in Procs : ~(pc[p] = "saveCurrent" /\ pc'[p] = "idle")) =>
            inbox' = inbox
      ]_vars

\* A request has returned 4 for " w? " and c1 and c2 have each been sent its
\* message, with the question "w?"; another request has failed and sent
\* nothing.
C11_Witness ==
    /\ \A c \in ClientIds :
          /\ Len(inbox[c]) = 1
          /\ inbox[c][1] = [type |-> "number-update", number |-> 4,
                             question |-> <<119, 63>>, numberSource |-> "library"]
    /\ \E p \in Procs : /\ question[p] = <<32, 119, 63, 32>>
                         /\ response[p] = Succeeded(4, "library")
    /\ \E p \in Procs : response[p] = Failed(500, "Question is required")

\* C12: the step that sends the message always returns the result, with no
\* socket, with sockets that are closing or closed; a socket that is not open
\* is sent nothing, and every open socket is sent the message all the same.
C12_PublishNeverFails ==
    [][\A p \in Procs :
          (pc[p] = "saveCurrent" /\ pc'[p] = "idle") =>
              /\ response'[p] = Succeeded(constrainedNumber[p], numberSource[p])
              /\ \A c \in ClientIds :
                    /\ readyState[c] # "OPEN" => inbox'[c] = inbox[c]
                    /\ readyState[c] = "OPEN" => Len(inbox'[c]) = Len(inbox[c]) + 1
      ]_vars

\* Two requests have returned: c1, which is closing, was sent the first
\* message only, and c2 was sent both.
C12_Witness ==
    /\ readyState["c1"] = "CLOSING"
    /\ readyState["c2"] = "OPEN"
    /\ Len(inbox["c1"]) = 1
    /\ Len(inbox["c2"]) = 2
    /\ \A p \in Procs : pc[p] = "idle" /\ response[p].status = 200

\* C13: when a request returns its result and the write of the current
\* question file was not rejected, the file holds the trimmed question and the
\* number and source of that result, and nothing else; and
\* /get-current-question answers with what the file holds when it reads it.
C13_StateOverwritten ==
    [][\A p \in Procs :
          /\ (pc[p] = "saveCurrent" /\ pc'[p] = "idle"
                  /\ writeFailures' = writeFailures) =>
                currentFile' =
                    [valid |-> TRUE,
                     data |-> [question |-> Trim(question[p]),
                               number |-> response'[p].number,
                               numberSource |-> response'[p].numberSource]]
          /\ (pc[p] = "readCurrent" /\ pc'[p] = "idle") =>
                /\ currentFile.valid
                /\ response'[p].status = 200
                /\ response'[p].question = currentFile.data.question
                /\ response'[p].number = currentFile.data.number
                /\ response'[p].numberSource = currentFile.data.numberSource
      ]_vars

\* " w? " and "n" have both been answered and neither write of the current
\* question file was rejected: the file holds "n", 15 and gpt, the result of
\* the request that wrote last, and nothing of "w?".
C13_Witness ==
    \E p, r \in Procs :
        /\ question[p] = <<110>>
        /\ response[p] = Succeeded(15, "gpt")
        /\ question[r] = <<32, 119, 63, 32>>
        /\ response[r] = Succeeded(4, "library")
        /\ writeFailures = 0
        /\ currentFile = [valid |-> TRUE,
                          data |-> [question |-> <<110>>, number |-> 15,
                                    numberSource |-> "gpt"]]

\* C15: when /get-current-question finds no current question file and a
\* library that is not empty, it runs processQuestionLogic on a question of
\* the library; when that succeeds it answers with that question, the number
\* and autoGenerated, and the current question file holds that question and
\* number (unless its write was rejected, which is dropped); when that fails
\* it answers with that failure, a 500 with the message of the model call,
\* and not with a 404 for a missing or empty library.
C15_SeedsCurrentQuestion ==
    /\ [](\A p \in Procs :
            (route[p] = "get-current-question" /\ pc[p] = "idle"
                    /\ question[p] # << >>) =>
                \/ /\ CurrentAnswer(p).status = 200
                   /\ CurrentAnswer(p).autoGenerated
                   /\ CurrentAnswer(p).question = Trim(question[p])
                   /\ CurrentAnswer(p).number = constrainedNumber[p]
                \/ /\ CurrentAnswer(p).status = 500
                   /\ CurrentAnswer(p).message = "openai error")
    /\ [][\A p \in Procs :
            route[p] = "get-current-question" =>
                /\ (pc[p] = "readLibrary" /\ pc'[p] # "readLibrary"
                        /\ Len(ReadLibrary) > 0) =>
                      /\ pc'[p] = "lookup"
                      /\ \E i \in 1..Len(ReadLibrary) :
                            question'[p] = ReadLibrary[i].question
                /\ (pc[p] = "saveCurrent" /\ pc'[p] = "idle") =>
                      \/ currentFile' =
                            [valid |-> TRUE,
                             data |-> [question |-> Trim(question[p]),
                                       number |-> constrainedNumber[p],
                                       numberSource |-> numberSource[p]]]
                      \/ /\ UNCHANGED currentFile
                         /\ writeFailures' = writeFailures + 1
        ]_vars

\* C19: the library never holds two entries whose questions, trimmed and
\* lower-cased, are the same; two requests that both miss the same new
\* question leave one entry for it.
C19_NoDuplicateQuestions ==
    \A i, j \in 1..Len(ReadLibrary) :
        i # j =>
            ToLowerCase(Trim(ReadLibrary[i].question))
                # ToLowerCase(Trim(ReadLibrary[j].question))

\* C14: a rejected write of the library file or of the current question file
\* does not fail the request: it goes on with the number it has, returns it
\* and sends the message; and a request fails only for a missing question or
\* for a call to the model that failed.
C14_WriteFailureAbsorbed ==
    /\ [](\A p \in Procs :
            (pc[p] = "idle" /\ response[p].status \notin {0, 200}) =>
                \/ /\ response[p] = Failed(500, "Question is required")
                   /\ question[p] = << >>
                \/ /\ response[p] = Failed(500, "openai error")
                   /\ oracleCalls[p] = 1
                   /\ \/ ~lastReply[p].ok
                      \/ lastReply[p].number \notin (0 - Fixed(9999))..Fixed(9999))
    /\ [][\A p \in Procs :
            /\ (pc[p] = "appendWrite" /\ writeFailures' = writeFailures + 1
                    /\ pc'[p] # "appendWrite") =>
                  /\ pc'[p] = "saveCurrent"
                  /\ constrainedNumber'[p] = constrainedNumber[p]
                  /\ numberSource'[p] = numberSource[p]
            /\ (pc[p] = "saveCurrent" /\ writeFailures' = writeFailures + 1
                    /\ pc'[p] # "saveCurrent") =>
                  /\ response'[p] = Succeeded(constrainedNumber[p], numberSource[p])
                  /\ \A c \in ClientIds :
                        readyState[c] = "OPEN" =>
                            /\ Len(inbox'[c]) = Len(inbox[c]) + 1
                            /\ inbox'[c][Len(inbox'[c])].number = constrainedNumber[p]
        ]_vars

\* " w? " has been answered 15 by the model and returned, and c1 has been
\* sent 15, although the write of the library file was rejected: there is no
\* library file.
C14_Witness ==
    \E p \in Procs :
        /\ question[p] = <<32, 119, 63, 32>>
        /\ response[p] = Succeeded(15, "gpt")
        /\ writeFailures = 1
        /\ calls = 1
        /\ currentFile.valid
        /\ ~libraryFile.valid
        /\ Len(inbox["c1"]) = 1
        /\ inbox["c1"][1].number = 15

\* The number of entries of a sequence whose question is q.
CountOf(entries, q) == Cardinality({i \in 1..Len(entries) : entries[i].question = q})

\* C16: on a library of s > 0 entries /get-suggested-questions answers with
\* min(25, s) questions and no number, each taken from a different entry of
\* the library and no two of them the same; on a library that is missing or
\* empty it answers 404; and it changes neither file.
C16_SuggestsDistinctQuestions ==
    [][samples' # samples =>
          /\ UNCHANGED << libraryFile, currentFile >>
          /\ IF Len(ReadLibrary) = 0
             THEN /\ suggested'.status = 404
                  /\ suggested'.questions = << >>
             ELSE LET questions == suggested'.questions
                      asked == [i \in 1..Len(questions) |-> [question |-> questions[i]]]
                  IN  /\ suggested'.status = 200
                      /\ DOMAIN suggested' = {"status", "message", "questions", "count"}
                      /\ Len(questions) = Min(25, Len(ReadLibrary))
                      /\ suggested'.count = Len(questions)
                      /\ \A i \in 1..Len(questions) :
                            CountOf(asked, questions[i])
                                <= CountOf(ReadLibrary, questions[i])
                      /\ \A i, j \in 1..Len(questions) :
                            i # j => questions[i] # questions[j]
      ]_vars

\* C17: the batch request adds its pairs under the limit of 1000 entries: on
\* a library read with s entries, what it hands to fs.writeFile is these
\* followed by the first min(k, 1000 - s) of its k cleaned pairs, and by none
\* of them on a library of 1000.
C17_BatchAppendIsCapped ==
    [][(bpc = "read" /\ bpc' = "write") =>
          LET s == Len(ReadLibrary)
              k == Len(cleanedQAPairs)
              room == IF s >= 1000 THEN 0 ELSE 1000 - s
          IN  allQuestions' = ReadLibrary \o SubSeq(cleanedQAPairs, 1, Min(k, room))
      ]_vars

\* C18: when the call to the model of the batch request fails, or returns a
\* number of pairs other than 25, the request fails with a 500 and never
\* writes the library file; and no step of a batch request changes the
\* current question file or sends a message.
C18_BatchFailureChangesNothing ==
    [][/\ (bpc = "oracle" /\ bpc' # "oracle") =>
            IF batchReply'.ok /\ batchReply'.length = 25
            THEN bpc' = "read"
            ELSE /\ bpc' = "idle"
                 /\ batchResponse' = Failed(500, "openai error")
                 /\ UNCHANGED libraryFile
       /\ (bpc' # bpc \/ batchResponse' # batchResponse) =>
            UNCHANGED << currentFile, inbox >>
      ]_vars

\* The model has returned 24 pairs and the batch request has failed, with
\* the library, the current question and the messages as requests left them.
C18_Witness ==
    /\ batchReply = [ok |-> TRUE, length |-> 24]
    /\ bpc = "idle"
    /\ batchResponse = Failed(500, "openai error")
    /\ libraryFile = [valid |-> TRUE, entries |-> << Entry(<<87, 63>>, 4) >>]
    /\ currentFile.valid
    /\ Len(inbox["c1"]) = 1

\* C20: an entry of the library file stays where it is, with its question
\* and number, on every step, whatever requests and batch requests run.
C20_LibraryAppendOnly ==
    [][\A i \in 1..Len(ReadLibrary) :
          /\ i <= Len(ReadLibrary')
          /\ ReadLibrary'[i] = ReadLibrary[i]
      ]_vars

\* C21: once every request that was received has returned, the current
\* question file holds the question, number and source of the last message
\* that was sent, however the requests interleaved, when no write was
\* rejected (c1 has been sent every message).
C21_StateIsLastBroadcast ==
    (/\ \A p \in Procs : pc[p] = "idle"
     /\ writeFailures = 0
     /\ calls > 0
     /\ Len(inbox["c1"]) = calls) =>
        LET last == inbox["c1"][Len(inbox["c1"])]
        IN  /\ currentFile.valid
            /\ currentFile.data.question = last.question
            /\ currentFile.data.number = last.number
            /\ currentFile.data.numberSource = last.numberSource

\* The places of the entries of a library whose question is q, trimmed and
\* lower-cased.
IndicesFor(entries, q) ==
    {i \in 1..Len(entries) :
        ToLowerCase(Trim(entries[i].question)) = ToLowerCase(Trim(q))}

\* The number of the earliest entry for q.
EarliestNumber(entries, q) ==
    entries[CHOOSE i \in IndicesFor(entries, q) :
                \A j \in IndicesFor(entries, q) : i <= j].number

\* C22: when the library a request reads holds several entries for its
\* question (trimmed and lower-cased), the request takes the number of the
\* earliest of them; and when entries are added behind the entries of the
\* library, the number the lookup finds for a question that had an entry stays
\* the same.
C22_EarliestEntryWins ==
    [][/\ \A p \in Procs :
            (/\ pc[p] = "lookup" /\ pc'[p] # "lookup"
             /\ Cardinality(IndicesFor(ReadLibrary, question[p])) >= 2) =>
                /\ numberSource'[p] = "library"
                /\ constrainedNumber'[p] = EarliestNumber(ReadLibrary, question[p])
       /\ (/\ libraryFile.valid /\ libraryFile'.valid
           /\ Len(libraryFile'.entries) > Len(libraryFile.entries)
           /\ SubSeq(libraryFile'.entries, 1, Len(libraryFile.entries))
                  = libraryFile.entries) =>
              \A q \in BatchQuestionsAsked :
                  IndicesFor(libraryFile.entries, q) # {} =>
                      /\ FindIndex(libraryFile'.entries, q) # 0
                      /\ libraryFile'.entries[FindIndex(libraryFile'.entries, q)].number
                            = EarliestNumber(libraryFile.entries, q)
      ]_vars

\* The library holds "n" -> 15 first and "n" -> 7 behind it, and a request
\* for "n" has returned 15 from the library.
C22_Witness ==
    /\ libraryFile.valid
    /\ Len(libraryFile.entries) >= 2
    /\ libraryFile.entries[1] = Entry(<<110>>, 15)
    /\ libraryFile.entries[2] = Entry(<<110>>, 7)
    /\ \E p \in Procs :
          /\ question[p] = <<110>>
          /\ pc[p] = "idle"
          /\ response[p] = Succeeded(15, "library")

\* C23: a GET /get-current-question that finds the current question file
\* answers with the question, number and source of the file, not marked
\* autoGenerated, without running processQuestionLogic or calling the model;
\* the request changes neither file and sends no message.  The current
\* question file changes only when a processQuestionLogic returns, so two
\* such requests with none of these between them answer the same.
C23_CurrentReadIsPure ==
    [][/\ \A p \in Procs :
            /\ (pc[p] = "readCurrent" /\ pc'[p] # "readCurrent"
                    /\ currentFile.valid) =>
                  /\ pc'[p] = "idle"
                  /\ CurrentAnswer(p)' =
                        [status |-> 200, message |-> "",
                         number |-> currentFile.data.number,
                         numberSource |-> currentFile.data.numberSource,
                         question |-> currentFile.data.question,
                         autoGenerated |-> FALSE]
                  /\ oracleCalls'[p] = 0
                  /\ UNCHANGED << libraryFile, currentFile, inbox >>
            /\ (pc[p] = "idle" /\ pc'[p] = "readCurrent") =>
                  UNCHANGED << libraryFile, currentFile, inbox >>
       /\ currentFile' # currentFile =>
              \E p \in Procs : pc[p] = "saveCurrent" /\ pc'[p] = "idle"
      ]_vars

\* Two GET /get-current-question have been answered with "W?", 4, "library"
\* from the file; the files are as they were and no message has been sent.
C23_Witness ==
    /\ \A p \in Procs :
          /\ route[p] = "get-current-question"
          /\ pc[p] = "idle"
          /\ oracleCalls[p] = 0
          /\ CurrentAnswer(p) =
                [status |-> 200, message |-> "", number |-> 4,
                 numberSource |-> "library", question |-> <<87, 63>>,
                 autoGenerated |-> FALSE]
    /\ currentFile = [valid |-> TRUE,
                      data |-> [question |-> <<87, 63>>, number |-> 4,
                                numberSource |-> "library"]]
    /\ libraryFile = [valid |-> TRUE, entries |-> << Entry(<<87, 63>>, 4) >>]
    /\ \A c \in ClientIds : inbox[c] = << >>

\* A question with the trailing ".", ",", ";" and the surrounding white space
\* all removed.
Stripped(q) ==
    TrimStart(StripTrailing(q, {Period, Comma, Semicolon}
                                  \cup {c \in CleanAlphabet : IsWhiteSpace(c)}))

\* The pairs of a reply as the claim has them added: the questions stripped,
\* the pairs with nothing left dropped, the numbers normalized.
RECURSIVE StrippedPairs(_)
StrippedPairs(qaPairs) ==
    IF qaPairs = << >> THEN << >>
    ELSE (IF Stripped(Head(qaPairs).question) = << >> THEN << >>
          ELSE << Entry(Stripped(Head(qaPairs).question),
                        Reference(Head(qaPairs).number)) >>)
            \o StrippedPairs(Tail(qaPairs))

\* C24: every question a batch request is about to add is non-empty and ends
\* with none of ".", ",", ";" or white space, whatever question strings the
\* model supplied; the pairs are those of the reply with the questions
\* stripped, the empty ones dropped and the numbers normalized.
C24_BatchQuestionsAreClean ==
    /\ [](\A i \in 1..Len(cleanedQAPairs) :
            LET q == cleanedQAPairs[i].question
            IN  /\ q # << >>
                /\ q[Len(q)] \notin {Period, Comma, Semicolon}
                /\ ~IsWhiteSpace(q[Len(q)]))
    /\ [][(bpc = "oracle" /\ bpc' = "read") =>
            \E reply \in CleanReplies :
                cleanedQAPairs' = StrippedPairs(reply.qaPairs)]_vars

\* The library file is missing or its content is no library.
Corrupt(file) == ~file.valid \/ ~IsArray(file)

\* C25: a library file that is missing or corrupt counts as the empty library
\* and fails no request: a request misses and calls the model, then writes a
\* library of its one entry and succeeds; a batch request adds its pairs to
\* the empty sequence.  (The model always answers here; only a rejected write
\* fails a batch request.)
C25_CorruptLibraryIsEmpty ==
    /\ [](/\ \A p \in Procs : response[p].status \in {0, 200}
          /\ batchResponse.status = 500 => writeFailures > 0)
    /\ [][/\ \A p \in Procs :
              /\ (pc[p] = "lookup" /\ pc'[p] # "lookup" /\ Corrupt(libraryFile)) =>
                    pc'[p] = "oracle" /\ oracleCalls'[p] = 1
              /\ (pc[p] = "appendRead" /\ pc'[p] # "appendRead"
                      /\ Corrupt(libraryFile)) =>
                    /\ pc'[p] = "appendWrite"
                    /\ pendingLibrary'[p] =
                          << Entry(Trim(question[p]), constrainedNumber[p]) >>
              /\ (pc[p] = "appendWrite" /\ pc'[p] # "appendWrite"
                      /\ writeFailures' = writeFailures) =>
                    libraryFile' = [valid |-> TRUE, entries |-> pendingLibrary[p]]
          /\ (bpc = "read" /\ bpc' # "read" /\ Corrupt(libraryFile)) =>
                bpc' = "write" /\ allQuestions' = cleanedQAPairs
         ]_vars

\* The places of a request inside processQuestionLogic.
Resolving == {"lookup", "oracle", "appendRead", "appendWrite", "saveCurrent"}

\* C26: every processQuestionLogic that was started comes to its end, whatever
\* other requests, batch requests and reads of the current question run
\* beside it; it ends either with its result, after the write of the current
\* question and the broadcast, or with the failure of the model.
C26_ResolveCompletes ==
    /\ \A p \in Procs : (pc[p] \in Resolving) ~> (pc[p] = "idle")
    /\ [][\A p \in Procs :
            (pc[p] \in Resolving /\ pc'[p] = "idle") =>
                \/ pc[p] = "saveCurrent" /\ response'[p].status = 200
                \/ pc[p] = "oracle" /\ response'[p].status = 500
        ]_vars

\* Both requests have come to their end beside a batch request: one with 15
\* from the model, stored, written and returned, the other with the failure
\* of the model.
C26_Witness ==
    /\ \A p \in Procs : pc[p] = "idle" /\ route[p] = "process-question"
    /\ \E p, r \in Procs :
          /\ response[p] = Succeeded(15, "gpt")
          /\ response[r].status = 500
    /\ batches = 1
    /\ currentFile.valid
    /\ currentFile.data.number = 15

\* C27: the normalizer run on a number it returned gives that number again,
\* for every input; a second run (the backup call after the schema transform,
\* or the run on a number read from the library) changes nothing.
C27_NormalizeIdempotent == again # -1 => again = out

\* -12345 has been normalized to 2347, and 2347 to 2347.
C27_Witness == raw = Fixed(-12345) /\ out = 2347 /\ again = 2347

====
